---- MODULE Spec2Model ----
(***************************************************************************)
(* RbxApiClient: the authenticated axios client (dist/client.js), the      *)
(* generated factory createRBXClient, and the build script                 *)
(* (postinstall.js) that discovers the Roblox endpoints, fetches their     *)
(* documentation, compiles it to methods and writes the class files.       *)
(***************************************************************************)
EXTENDS Integers, Sequences, FiniteSets, TLC

\* ------------------------------------------------------------------ bounds

\* requests one call chain may put on the wire before the model stops following it
MaxSends == 5
\* top-level calls made on one client
MaxCalls == 2

\* ------------------------------------------------------------ dist/client.js

XCSRFEndpoint == "https://auth.roblox.com/v2/logout"

\* the endpoint behind RBXClient.Users['v1'].Authenticated()
AuthenticatedEndpoint == "https://users.roblox.com/v1/users/authenticated"

Endpoints == {XCSRFEndpoint, AuthenticatedEndpoint}

\* HTTP statuses the server may answer with; NoStatus is a failure that carries
\* no response at all (err.response undefined)
NoStatus == 0
Statuses == {200, 401, 403, 500, NoStatus}

\* values of the x-csrf-token response header; "none" is an absent header
NoToken == "none"
TokenValues == {"t1", "t2"}

\* err.response.data: absent (null), an object without errors, an object with an
\* empty errors list, an object whose errors list has a first message
Payloads == {"null", "plain", "emptyErrors", "errors"}

Responses == [status : Statuses, token : TokenValues \cup {NoToken}, payload : Payloads]

NoResponse == [status |-> NoStatus, token |-> NoToken, payload |-> "null"]

\* the message axios gives the error, and what errors[0].message holds
AxiosMessage == "Request failed"
ApiMessage == "api error"
TokenMissing == "Cannot get X-CSRF-TOKEN, change API endpoint"

NoErr == [type |-> "none", id |-> 0, status |-> NoStatus, message |-> <<>>]

\* the error axios rejects request number id with (before any interceptor runs)
AxiosError(id, resp) ==
    [type |-> "AxiosError", id |-> id, status |-> resp.status, message |-> <<AxiosMessage>>]

NoResult == [kind |-> "pending", value |-> "none", err |-> NoErr]
Resolved(v) == [kind |-> "resolved", value |-> v, err |-> NoErr]
Rejected(e) == [kind |-> "rejected", value |-> "none", err |-> e]

\* a handler that leaves err.message alone whatever the payload
AppendApiMessage_Never(err, resp) == err

\* lines 56-59: the first listed error's message is appended to err.message
AppendApiMessage(err, resp) ==
    IF resp.payload = "errors"
    THEN [err EXCEPT !.message = Append(@, ApiMessage)]
    ELSE err

\* lines 56-61: reading .errors of an absent payload throws inside the handler,
\* and the promise is rejected with that TypeError instead of err
RejectWithMessage(err, resp) ==
    IF resp.payload = "null"
    THEN Rejected([type |-> "TypeError", id |-> err.id, status |-> NoStatus,
                   message |-> <<"Cannot read property 'errors'">>])
    ELSE Rejected(AppendApiMessage(err, resp))

\* line 30-32: the status that calls onTokenExpired
CallsOnTokenExpired(resp) == resp.status = 401

\* a handler that forgets to tell the refresh endpoint apart
NeedsRefresh_Everywhere(url, resp) == resp.status = 403

\* line 35: a 403 anywhere but on the refresh endpoint asks for a refresh
NeedsRefresh(url, resp) == resp.status = 403 /\ url # XCSRFEndpoint

\* lines 23-62, the rejected handler of the response interceptor, for the error
\* of request number id to url. What it decides:
\*   act     "refresh": return client.post(XCSRFEndpoint).then(replay)
\*           "settle":  the promise settles with result
\*   expired whether onTokenExpired is called (when it exists)
\*   token   the value stored in client.defaults.headers.common (NoToken: untouched)
onRejected(url, id, resp) ==
    LET err == AxiosError(id, resp) IN
    IF resp.status = NoStatus
    THEN [act |-> "settle", expired |-> FALSE, token |-> NoToken, result |-> Rejected(err)]
    ELSE IF CallsOnTokenExpired(resp)
    THEN [act |-> "settle", expired |-> TRUE, token |-> NoToken,
          result |-> RejectWithMessage(err, resp)]
    ELSE IF resp.status = 403
    THEN IF NeedsRefresh(url, resp)
         THEN [act |-> "refresh", expired |-> FALSE, token |-> NoToken, result |-> NoResult]
         ELSE IF resp.token # NoToken
         THEN [act |-> "settle", expired |-> FALSE, token |-> resp.token,
               result |-> Resolved("undefined")]
         ELSE [act |-> "settle", expired |-> FALSE, token |-> NoToken,
               result |-> Rejected([type |-> "String", id |-> 0, status |-> NoStatus,
                                    message |-> <<TokenMissing>>])]
    ELSE [act |-> "settle", expired |-> FALSE, token |-> NoToken,
          result |-> RejectWithMessage(err, resp)]

\* line 23: res => res.data
onFulfilled == [act |-> "settle", expired |-> FALSE, token |-> NoToken, result |-> Resolved("data")]


\* ------------------------------------------- createRBXClient (postinstall.js)

\* JavaScript values, as far as the catch clause of createRBXClient needs them
JSUndefined == [t |-> "undefined", v |-> 0]
JSNumber(n) == [t |-> "number", v |-> n]
JSBoolean(b) == [t |-> "boolean", v |-> IF b THEN 1 ELSE 0]

\* ToBoolean
Truthy(x) ==
    CASE x.t = "undefined" -> FALSE
      [] x.t = "number" -> x.v # 0
      [] x.t = "boolean" -> x.v = 1

\* the unary ! operator
JSNot(x) == JSBoolean(~Truthy(x))

\* the !== operator: values of different types are never strictly equal
StrictNotEqual(a, b) == a.t # b.t \/ a.v # b.v

\* err.status of what the lookup rejected with. Only an axios error can have the
\* field, and only in an axios build that sets it (hasStatus); a string and a
\* TypeError have none
ErrStatus(err, hasStatus) ==
    IF err.type = "AxiosError" /\ hasStatus /\ err.status # NoStatus
    THEN JSNumber(err.status)
    ELSE JSUndefined

\* line 261: if (!err.status !== 401) throw err
Rethrows(err, hasStatus) == StrictNotEqual(JSNot(ErrStatus(err, hasStatus)), JSNumber(401))

VARIABLES
    onTokenExpired,   \* whether the caller gave createClient a callback
    expiredCalls,     \* how often the callback has been called
    defaults,         \* client.defaults.headers.common['X-CSRF-TOKEN']
    stack,            \* the requests of the running call chain, innermost last
    sent,             \* the requests the running call has put on the wire
    outcome,          \* how the caller's promise settled
    calls,            \* top-level calls made so far
    factory,          \* createRBXClient: "idle", "lookup", "returned", "threw"
    userID            \* RBXClient.userID / userName: "unset" or "set"

clientVars == <<onTokenExpired, expiredCalls, defaults, stack, sent, outcome, calls, factory, userID>>


\* ------------------------------------- the compiler (postinstall.js 274-541)

\* parameters one operation may declare
MaxParams == 3

\* param.in as the documentation may give it; the last is one the compiler has
\* no mapping for
Locations == {"path", "query", "header", "body", "formData", "cookie"}

\* param.schema, resolved by extractSchemaNode: absent, an object with
\* properties, or another type
Schemas == {"none", "object", "string"}

\* the name of the i-th declared parameter
ParamNames == <<"userId", "limit", "cursor", "sortOrder", "model">>

\* Object.entries(schema.properties) of an object schema
Properties == <<"name", "description">>

\* a parameter as the document declares it, its name apart
ParameterSpecs == [in : Locations, required : BOOLEAN, schema : Schemas]

\* methodInfo.parameters: the i-th declared parameter is named ParamNames[i]
Parameters(declared) ==
    [i \in 1..Len(declared) |->
        [name |-> ParamNames[i], in |-> declared[i].in,
         required |-> declared[i].required, schema |-> declared[i].schema]]

\* the placeholders a path may have: none, or one for the first declared name
Placeholders == {{}, {ParamNames[1]}}

Orders(n) == {f \in [1..n -> 1..n] : \A i, j \in 1..n : f[i] = f[j] => i = j}

\* line 308: parameters.sort(param => param.required ? -1 : 1). The comparator
\* reads one argument only and is not a consistent comparator, so the order
\* the sort leaves is the engine's: any permutation
Sorted(parameters) ==
    {[i \in 1..Len(parameters) |-> parameters[f[i]]] : f \in Orders(Len(parameters))}

\* lines 313-316 and 342-345: path if the name is a placeholder, else param.in
Out(param, pathParams) ==
    [param |-> param.name,
     location |-> IF param.name \in pathParams THEN "path" ELSE param.in]

\* lines 297-374, on parameters already sorted
buildParamsInfo(pathParams, parameters) ==
    IF Len(parameters) = 1 /\ parameters[1].schema # "none"
    THEN IF parameters[1].schema = "object"
         THEN [params |-> [k \in 1..Len(Properties) |->
                             [name |-> Properties[k], out |-> Out(parameters[1], pathParams),
                              required |-> TRUE]],
               isMapped |-> Len(Properties) > 0]
         ELSE [params |-> <<>>, isMapped |-> FALSE]
    ELSE [params |-> [i \in 1..Len(parameters) |->
                        [name |-> parameters[i].name, out |-> Out(parameters[i], pathParams),
                         required |-> parameters[i].required]],
          isMapped |-> FALSE]

\* line 456-458: nothing routed yet
EmptyBody == [error |-> "none", url |-> <<>>, reqBody |-> "null", reqParams |-> <<>>,
              reqHeaders |-> <<>>]

\* lines 470-480: the one combined object goes where the group's location says
GroupedBody(out) ==
    CASE out.location = "path" -> [EmptyBody EXCEPT !.url = <<out.param>>]
      [] out.location = "query" -> [EmptyBody EXCEPT !.reqParams = <<out.param>>]
      [] out.location = "header" -> [EmptyBody EXCEPT !.reqHeaders = <<out.param>>]
      [] out.location = "body" -> [EmptyBody EXCEPT !.reqBody = "group"]
      [] OTHER -> [EmptyBody EXCEPT !.error = "unsupported"]

\* lines 489-491: a body parameter when the payload is already set throws
RouteBody(acc, param) ==
    IF acc.reqBody # "null"
    THEN [acc EXCEPT !.error = "duplicateBody"]
    ELSE [acc EXCEPT !.reqBody = param.name]

\* lines 495-497 with the unknown location skipped instead of thrown
RouteUnsupported_Skip(acc, param) == acc

\* lines 495-497: throw new Error('Unsupported parameter location: ...')
RouteUnsupported(acc, param) == [acc EXCEPT !.error = "unsupported"]

\* lines 483-497: one turn of the loop over the ungrouped parameters
Route(acc, param) ==
    CASE param.out.location = "path" -> [acc EXCEPT !.url = Append(@, param.name)]
      [] param.out.location = "query" -> [acc EXCEPT !.reqParams = Append(@, param.name)]
      [] param.out.location = "header" -> [acc EXCEPT !.reqHeaders = Append(@, param.name)]
      [] param.out.location = "body" -> RouteBody(acc, param)
      [] param.out.location = "formData" ->
             [acc EXCEPT !.reqBody = param.name, !.reqHeaders = Append(@, param.name)]
      [] OTHER -> RouteUnsupported(acc, param)

\* lines 482-498: the loop; a throw ends it
RECURSIVE RouteAll(_, _, _)
RouteAll(acc, params, i) ==
    IF i > Len(params) \/ acc.error # "none"
    THEN acc
    ELSE RouteAll(Route(acc, params[i]), params, i + 1)

\* lines 455-512
buildMethodBody(params, isMapped) ==
    IF isMapped
    THEN GroupedBody(params[Len(params)].out)
    ELSE RouteAll(EmptyBody, params, 1)

\* lines 526-531, for one HTTP verb of one path
buildEndpoint(pathParams, parameters) ==
    LET info == buildParamsInfo(pathParams, parameters)
    IN  [params |-> info.params, isMapped |-> info.isMapped,
         body |-> buildMethodBody(info.params, info.isMapped)]

NotCompiled == [params |-> <<>>, isMapped |-> FALSE, body |-> [EmptyBody EXCEPT !.error = "pending"]]

\* --------------------- a call of a generated method (postinstall.js 167-171, 433-444)

\* parameters of an operation whose generated method is called
MaxCallParams == 3

\* the operations whose methods are called: query parameters, so that every one
\* of them compiles
CallSpecs == {s \in ParameterSpecs : s.in = "query" /\ s.schema \in {"none", "object"}}

\* lines 433-444: { name = required('name'), other = null } = {}, a field for
\* every parameter in the order of params
buildMethodParams(params) ==
    [i \in 1..Len(params) |->
        [name |-> params[i].name,
         default |-> IF params[i].required THEN "required" ELSE "null"]]

\* what the caller's object holds under one name: no such key, or the key with
\* undefined, null or another value
Supplied == {"absent", "undefined", "null", "value"}

\* the argument of a call: none (undefined), null, or an object
Arguments(signature) ==
    LET names == {signature[i].name : i \in 1..Len(signature)}
    IN  {[t |-> "undefined", props |-> [n \in names |-> "absent"]],
         [t |-> "null", props |-> [n \in names |-> "absent"]]}
        \cup {[t |-> "object", props |-> props] : props \in [names -> Supplied]}

NotCalled == [t |-> "none", props |-> <<>>]

\* a default that is used for an absent key only
UsesDefault_AbsentOnly(value) == value = "absent"

\* line 439, name = <default>: the initializer of a destructured field is
\* evaluated when the value read is undefined, the key being absent or not
UsesDefault(value) == value \in {"absent", "undefined"}

\* line 443: the fields are bound left to right; the index of the first field
\* whose initializer is required(...) and is evaluated, 0 when there is none
RECURSIVE FirstGuard(_, _, _)
FirstGuard(signature, props, i) ==
    IF i > Len(signature)
    THEN 0
    ELSE IF signature[i].default = "required" /\ UsesDefault(props[signature[i].name])
    THEN i
    ELSE FirstGuard(signature, props, i + 1)

NotRaised == [by |-> "none", error |-> "none", param |-> ""]

\* lines 167-171: required(paramName) builds its message from
\* arguments.callee.caller.name. Function.caller is the engine's to define and
\* must not be a strict function, which a class method is: where it is null
\* the read of .name throws a TypeError before the SyntaxError is made
GuardErrors == {"SyntaxError", "TypeError"}

\* line 443, { ... } = {}: the binding of the argument to the signature
Bound(signature, argument, error) ==
    IF Len(signature) = 0
    THEN NotRaised
    ELSE IF argument.t = "null"
    THEN [by |-> "destructuring", error |-> "TypeError", param |-> ""]
    ELSE LET g == FirstGuard(signature, argument.props, 1)
         IN  IF g = 0
             THEN NotRaised
             ELSE [by |-> "required", error |-> error, param |-> signature[g].name]

\* ------------------------------------- the build script (postinstall.js 16-634)

\* the largest cap on simultaneous requests the model configures
MaxCap == 2
\* links one discovery page may yield
MaxLinks == 1
\* versions one metadata document may declare
MaxVersions == 1
\* paths one schema document may hold
MaxPaths == 1

\* lines 56-84: the discovery pages
Sources == {"devforum", "BTRoblox"}

LowerCase == <<"a", "b", "c", "d", "e", "f", "g", "h", "i", "j", "k", "l", "m",
               "n", "o", "p", "q", "r", "s", "t", "u", "v", "w", "x", "y", "z">>
UpperCase == <<"A", "B", "C", "D", "E", "F", "G", "H", "I", "J", "K", "L", "M",
               "N", "O", "P", "Q", "R", "S", "T", "U", "V", "W", "X", "Y", "Z">>

IsLetter(c) == \E i \in 1..Len(LowerCase) : c = LowerCase[i] \/ c = UpperCase[i]

toUpperCase(c) ==
    IF \E i \in 1..Len(LowerCase) : c = LowerCase[i]
    THEN UpperCase[CHOOSE i \in 1..Len(LowerCase) : c = LowerCase[i]]
    ELSE c

toLowerCase(c) ==
    IF \E i \in 1..Len(UpperCase) : c = UpperCase[i]
    THEN LowerCase[CHOOSE i \in 1..Len(UpperCase) : c = UpperCase[i]]
    ELSE c

\* lines 36-40: the first letter upper case, the rest lower case
toNormalCase(str) ==
    [i \in 1..Len(str) |-> IF i = 1 THEN toUpperCase(str[i]) ELSE toLowerCase(str[i])]

\* the sub-domains of https://<sub-domain>.roblox.com the pages may link to, as
\* their characters; the pattern of lines 72 and 80 admits letters and hyphens
Hosts == {<<"u", "s", "e", "r", "s">>,
          <<"U", "s", "e", "r", "s">>,
          <<"g", "a", "m", "e", "-", "j", "o", "i", "n">>,
          <<"f", "r", "i", "e", "n", "d", "s", "i", "t", "e">>}

\* lines 51-54: the one excluded address a page link can equal
excludes == {<<"f", "r", "i", "e", "n", "d", "s", "i", "t", "e">>}

\* what a page's parser may return
Pages == UNION {[1..n -> Hosts] : n \in 0..MaxLinks}

\* line 124: url.match(/\/([a-zA-Z\-]+?)\./) finds the sub-domain when it is
\* letters and hyphens only
apiClassNameMatch(url) ==
    Len(url) > 0 /\ \A i \in 1..Len(url) : IsLetter(url[i]) \/ url[i] = "-"

\* lines 127-131: split on '-', every part in normal case, joined
RECURSIVE NormalParts(_, _, _)
NormalParts(raw, i, part) ==
    IF i > Len(raw)
    THEN toNormalCase(part)
    ELSE IF raw[i] = "-"
    THEN toNormalCase(part) \o NormalParts(raw, i + 1, <<>>)
    ELSE NormalParts(raw, i + 1, Append(part, raw[i]))

apiClassName(url) == NormalParts(url, 1, <<>>)

\* version strings a metadata document may declare
AllVersions == <<<<"v", "1", ".", "1">>, <<"v", "1", ".", "0">>, <<"v", "1">>>>

VersionLists == {SubSeq(AllVersions, 1, n) : n \in 0..MaxVersions}

\* the operations a schema document of the model may hold: one with a query
\* parameter, one with a parameter in a location the compiler rejects
DocOperations == {<<[in |-> "query", required |-> TRUE, schema |-> "none"]>>,
                  <<[in |-> "cookie", required |-> FALSE, schema |-> "none"]>>}

\* Object.entries(endpointData) of one path: the operations under its HTTP
\* verbs, none or one
PathItems == {<<>>} \cup {<<operation>> : operation \in DocOperations}

\* doc.paths
Documents == UNION {[1..n -> PathItems] : n \in 0..MaxPaths}

\* lines 566-571: whether some operation of the document fails to compile
Throws(doc) ==
    \E k \in 1..Len(doc) : \E m \in 1..Len(doc[k]) :
        \E parameters \in Sorted(Parameters(doc[k][m])) :
            buildEndpoint({}, parameters).body.error # "none"

\* lines 526-540: the methods buildEndpoint generates for the paths of a
\* document, one for every verb of every path
RECURSIVE Generated(_, _)
Generated(doc, k) ==
    IF k > Len(doc) THEN 0 ELSE Len(doc[k]) + Generated(doc, k + 1)

\* line 158: version.replace(/\.0$/, '')
StripDotZero(version) ==
    IF Len(version) >= 2 /\ version[Len(version) - 1] = "." /\ version[Len(version)] = "0"
    THEN SubSeq(version, 1, Len(version) - 2)
    ELSE version

\* line 158: ./dist/apis/${name}_${version.replace(/\.0$/, '')}.js
ClassFile(name, version, run) ==
    [dir |-> "dist/apis", name |-> name, version |-> StripDotZero(version), run |-> run]

\* lines 209 and 234: version.replace(/\./g, '_')
RECURSIVE Underscored(_)
Underscored(version) ==
    IF version = <<>>
    THEN <<>>
    ELSE <<IF Head(version) = "." THEN "_" ELSE Head(version)>> \o Underscored(Tail(version))

\* lines 209-211: require('./apis/${name}_${version}'), the version without a
\* trailing .0 and with its dots made underscores
Required(name, version) ==
    [dir |-> "dist/apis", name |-> name, version |-> Underscored(StripDotZero(version))]

\* require() of a path without extension loads the file of that name with .js
Resolve(module, run) ==
    [dir |-> module.dir, name |-> module.name, version |-> module.version, run |-> run]

\* lines 227-235: '${version}': new ${name}_${version with underscores}(...)
Instance(name, version) ==
    [api |-> name, key |-> StripDotZero(version), class |-> Required(name, version)]

\* the index before createIndex writes it
NoIndex == [requires |-> {}, instances |-> {}]

\* lines 204-213 and 227-241: the modules the index requires and the versions
\* it instantiates, those whose list of methods is not empty
IndexOf(tree) ==
    LET listed == {e \in tree : e.methods > 0}
    IN  [requires |-> {Required(e.api, e.version) : e \in listed},
         instances |-> {Instance(e.api, e.version) : e \in listed}]

\* line 199: ./dist/index.js
IndexFile(run) == [dir |-> "dist", name |-> <<>>, version |-> <<>>, run |-> run]

\* what an earlier run of the script left in ./dist
OldOutput == {IndexFile("old"), ClassFile(<<"U", "s", "e", "r", "s">>, <<"v", "1">>, "old")}

\* ------------------------------------- buildMethodName (postinstall.js 407-425)

\* segments one path of the model may have
MaxSegments == 3

Digits == {"0", "1", "2", "3", "4", "5", "6", "7", "8", "9"}

\* what may stand between two '/' of a path: nothing, version tokens, the
\* letter v, words, and a placeholder
Segments == {<<>>,
             <<"v", "1">>,
             <<"v", "1", ".", "1">>,
             <<"v">>,
             <<"u", "s", "e", "r", "s">>,
             <<"v", "e", "r", "i", "f", "y">>,
             <<"{", "i", "d", "}">>}

\* the class names the methods are generated for
ClassNames == {<<"U", "s", "e", "r", "s">>, <<"G", "a", "m", "e", "s">>}

\* a path: every segment after a '/'
RECURSIVE Join(_, _)
Join(segments, i) ==
    IF i > Len(segments)
    THEN <<>>
    ELSE <<"/">> \o segments[i] \o Join(segments, i + 1)

Paths == {Join(segments, 1) : segments \in UNION {[1..n -> Segments] : n \in 0..MaxSegments}}

\* line 409: path.split(/-|\//)
RECURSIVE Split(_, _, _)
Split(str, i, part) ==
    IF i > Len(str)
    THEN <<part>>
    ELSE IF str[i] \in {"-", "/"}
    THEN <<part>> \o Split(str, i + 1, <<>>)
    ELSE Split(str, i + 1, Append(part, str[i]))

\* line 414: /^v(\d|.)+$/, where the dot is not escaped and matches any
\* character but a line break: the letter v, then one such character or more
IsVersion(part) ==
    /\ Len(part) >= 2
    /\ part[1] = "v"
    /\ \A i \in 2..Len(part) : part[i] \in Digits \/ part[i] # "\n"

\* line 414: /^\{.*?\}$/
IsPlaceholder(part) ==
    /\ Len(part) >= 2
    /\ part[1] = "{"
    /\ part[Len(part)] = "}"

\* lines 409-415: the parts of the path the name is made of
RECURSIVE NameParts(_, _)
NameParts(parts, i) ==
    IF i > Len(parts)
    THEN <<>>
    ELSE (IF parts[i] # <<>> /\ ~IsVersion(parts[i]) /\ ~IsPlaceholder(parts[i])
          THEN <<parts[i]>>
          ELSE <<>>) \o NameParts(parts, i + 1)

\* line 419: RegExp(apiClassName, 'i').test(part), the class name somewhere in
\* the part, whatever the case
TestIgnoreCase(className, part) ==
    \E k \in 0..(Len(part) - Len(className)) :
        \A i \in 1..Len(className) : toLowerCase(part[k + i]) = toLowerCase(className[i])

\* lines 417-423: the parts in normal case, appended in order; while the name
\* is empty a part that holds the class name is passed over
RECURSIVE AppendParts(_, _, _, _)
AppendParts(className, parts, i, name) ==
    IF i > Len(parts)
    THEN name
    ELSE IF name = <<>> /\ Len(parts) > 1 /\ TestIgnoreCase(className, parts[i])
    THEN AppendParts(className, parts, i + 1, name)
    ELSE AppendParts(className, parts, i + 1, name \o toNormalCase(parts[i]))

\* lines 407-425
buildMethodName(className, path) ==
    AppendParts(className, NameParts(Split(path, 1, <<>>), 1), 1, <<>>)

NotNamed == <<"?">>

VARIABLES
    phase,            \* where main() is: start, discovery, meta, tree, emit, done, failed
    failure,          \* what main() was rejected with
    MAX_SIMULTANEOUS_REQUESTS,  \* the cap the limiter is configured with
    sources,          \* the discovery requests: source -> inflight, done, failed
    apiList,          \* fetchApiList: the addresses collected so far
    apisList,         \* the addresses fetchApiList returned
    metaRequests,     \* fetchMeta: a request an address: queued, inflight, done, failed
    result,           \* fetchMeta: name, versions and url of every recorded API
    availableCount,   \* fetchMeta: availableCount
    docsRequests,     \* buildApiTree: a request for every (API, version)
    apisTree,         \* buildApiTree: the (API, version) entries with their methods
    emitStep,         \* createAPI: idle, clean, index, classes, written
    files,            \* the files under ./dist
    index             \* what createIndex wrote to ./dist/index.js

buildVars == <<phase, failure, MAX_SIMULTANEOUS_REQUESTS, sources, apiList, apisList,
               metaRequests, result, availableCount, docsRequests, apisTree, emitStep, files,
               index>>

VARIABLES
    pathParams,       \* the placeholder names of the path being compiled
    methodInfo,       \* the parameters the document declares, in its order
    method            \* what buildEndpoint made of the operation

compVars == <<pathParams, methodInfo, method>>

VARIABLES
    argument,         \* what the generated method was called with
    raised            \* what the call threw while its parameters were bound

callVars == <<argument, raised>>

VARIABLES
    className,        \* buildMethodName: apiClassName
    path,             \* buildMethodName: path
    methodName        \* buildMethodName: the name returned

nameVars == <<className, path, methodName>>

notClient == <<compVars, buildVars, callVars, nameVars>>
notCompiler == <<clientVars, buildVars, callVars, nameVars>>
notBuild == <<clientVars, compVars, callVars, nameVars>>
notCall == <<clientVars, buildVars, nameVars>>
notName == <<clientVars, compVars, buildVars, callVars>>

vars == <<clientVars, compVars, buildVars, callVars, nameVars>>

\* the paths and class names a method is named for
InitNames ==
    /\ className \in ClassNames
    /\ path \in Paths
    /\ methodName = NotNamed

\* no method is named
IdleName ==
    /\ className = <<>>
    /\ path = <<>>
    /\ methodName = NotNamed

\* line 529: const methodName = buildMethodName(apiClassName, path)
Name ==
    /\ methodName = NotNamed
    /\ methodName' = buildMethodName(className, path)
    /\ UNCHANGED <<className, path>>
    /\ UNCHANGED notName

\* no generated method is called
IdleCall ==
    /\ argument = NotCalled
    /\ raised = NotRaised

InitCompiler ==
    /\ pathParams \in Placeholders
    /\ \E n \in 0..MaxParams : methodInfo \in [1..n -> ParameterSpecs]
    /\ method = NotCompiled

IdleCompiler ==
    /\ pathParams = {}
    /\ methodInfo = <<>>
    /\ method = NotCompiled

\* lines 526-531: one operation of the document is compiled
Compile ==
    /\ method = NotCompiled
    /\ \E parameters \in Sorted(Parameters(methodInfo)) :
         method' = buildEndpoint(pathParams, parameters)
    /\ UNCHANGED <<pathParams, methodInfo>>
    /\ UNCHANGED notCompiler

\* the operations whose generated methods are called; a schema is declared
\* where it changes the signature, on an only parameter
InitCalls ==
    /\ pathParams = {}
    /\ \E n \in 0..MaxCallParams :
          methodInfo \in [1..n -> {s \in CallSpecs : n = 1 \/ s.schema = "none"}]
    /\ method = NotCompiled
    /\ IdleCall

\* a caller invokes the method generated for the operation: its parameters are
\* bound (line 443) before its body runs
Call ==
    /\ method # NotCompiled
    /\ method.body.error = "none"
    /\ argument = NotCalled
    /\ LET signature == buildMethodParams(method.params)
       IN  \E a \in Arguments(signature), error \in GuardErrors :
             /\ argument' = a
             /\ raised' = Bound(signature, a, error)
    /\ UNCHANGED compVars
    /\ UNCHANGED notCall

\* ------------------------------------------------- the build script's steps

InitBuild ==
    /\ phase = "start"
    /\ failure = "none"
    /\ MAX_SIMULTANEOUS_REQUESTS \in 1..MaxCap
    /\ sources = [s \in Sources |-> "idle"]
    /\ apiList = <<>>
    /\ apisList = <<>>
    /\ metaRequests = <<>>
    /\ result = <<>>
    /\ availableCount = 0
    /\ docsRequests = <<>>
    /\ apisTree = {}
    /\ emitStep = "idle"
    /\ files \in {{}, OldOutput}
    /\ index = NoIndex

\* a build script that is not run
IdleBuild ==
    /\ phase = "start"
    /\ failure = "none"
    /\ MAX_SIMULTANEOUS_REQUESTS = 1
    /\ sources = [s \in Sources |-> "idle"]
    /\ apiList = <<>>
    /\ apisList = <<>>
    /\ metaRequests = <<>>
    /\ result = <<>>
    /\ availableCount = 0
    /\ docsRequests = <<>>
    /\ apisTree = {}
    /\ emitStep = "idle"
    /\ files = {}
    /\ index = NoIndex

Settled(requests) == \A i \in 1..Len(requests) : requests[i].state \in {"done", "failed"}

InFlight(requests) == Cardinality({i \in 1..Len(requests) : requests[i].state = "inflight"})

\* the requests that hold a permit of the limiter: those made through client
Running == InFlight(metaRequests) + InFlight(docsRequests)

\* the requests made with axios itself, which the limiter does not see
Unlimited == Cardinality({s \in Sources : sources[s] = "inflight"})

\* line 31: ConcurrencyManager(client, MAX_SIMULTANEOUS_REQUESTS) lets a request
\* of client start while fewer than the cap are running
HasPermit == Running < MAX_SIMULTANEOUS_REQUESTS

\* the limiter's queue is first in, first out
FirstQueued(requests, i) ==
    /\ requests[i].state = "queued"
    /\ \A j \in 1..(i - 1) : requests[j].state # "queued"

\* lines 611 and 86-101: main() calls fetchApiList, which requests every source
\* with axios.get
fetchApiList ==
    /\ phase = "start"
    /\ phase' = "discovery"
    /\ sources' = [s \in Sources |-> "inflight"]
    /\ UNCHANGED <<failure, MAX_SIMULTANEOUS_REQUESTS, apiList, apisList, metaRequests, result,
                   availableCount, docsRequests, apisTree, emitStep, files>>
    /\ UNCHANGED <<index, notBuild>>

\* lines 92-97: the addresses of seq not yet in list are pushed, in order
RECURSIVE PushNew(_, _, _)
PushNew(list, seq, i) ==
    IF i > Len(seq)
    THEN list
    ELSE PushNew(IF \E j \in 1..Len(list) : list[j] = seq[i] THEN list ELSE Append(list, seq[i]),
                 seq, i + 1)

\* lines 89-98: a source answers and its parser returns page
SourceResponds(s, page) ==
    /\ sources[s] = "inflight"
    /\ sources' = [sources EXCEPT ![s] = "done"]
    /\ apiList' = PushNew(apiList, page, 1)
    /\ UNCHANGED <<phase, failure, MAX_SIMULTANEOUS_REQUESTS, apisList, metaRequests, result,
                   availableCount, docsRequests, apisTree, emitStep, files>>
    /\ UNCHANGED <<index, notBuild>>

\* line 99: a source that fails is warned about and left out
SourceFails(s) ==
    /\ sources[s] = "inflight"
    /\ sources' = [sources EXCEPT ![s] = "failed"]
    /\ UNCHANGED <<phase, failure, MAX_SIMULTANEOUS_REQUESTS, apiList, apisList, metaRequests,
                   result, availableCount, docsRequests, apisTree, emitStep, files>>
    /\ UNCHANGED <<index, notBuild>>

\* line 105: apiList.filter(api => excludes.indexOf(api) === -1)
RECURSIVE Filter(_, _)
Filter(list, i) ==
    IF i > Len(list)
    THEN <<>>
    ELSE (IF list[i] \in excludes THEN <<>> ELSE <<list[i]>>) \o Filter(list, i + 1)

\* lines 104-105, 613-614 and 118-120 (or 623-624): every source has settled
\* and fetchApiList returns, its requests and its list with it; with an address
\* left fetchMeta requests the metadata of each through client
fetchMeta ==
    /\ phase = "discovery"
    /\ \A s \in Sources : sources[s] \in {"done", "failed"}
    /\ apisList' = Filter(apiList, 1)
    /\ IF apisList' = <<>>
       THEN /\ phase' = "failed"
            /\ failure' = "API list not found."
            /\ UNCHANGED metaRequests
       ELSE /\ phase' = "meta"
            /\ metaRequests' = [i \in 1..Len(apisList') |-> [url |-> apisList'[i], state |-> "queued"]]
            /\ UNCHANGED failure
    /\ sources' = [s \in Sources |-> "idle"]
    /\ apiList' = <<>>
    /\ UNCHANGED <<MAX_SIMULTANEOUS_REQUESTS, result, availableCount,
                   docsRequests, apisTree, emitStep, files>>
    /\ UNCHANGED <<index, notBuild>>

\* the limiter starts the metadata request at the head of its queue
AdmitMeta(i) ==
    /\ FirstQueued(metaRequests, i)
    /\ HasPermit
    /\ metaRequests' = [metaRequests EXCEPT ![i].state = "inflight"]
    /\ UNCHANGED <<phase, failure, MAX_SIMULTANEOUS_REQUESTS, sources, apiList, apisList, result,
                   availableCount, docsRequests, apisTree, emitStep, files>>
    /\ UNCHANGED <<index, notBuild>>

\* line 132: result[apiClassName] = {...meta, url}; an object keeps the place
\* of a key it already has
Record(name, versions, url) ==
    IF \E k \in 1..Len(result) : result[k].name = name
    THEN [k \in 1..Len(result) |->
            IF result[k].name = name
            THEN [name |-> name, versions |-> versions, url |-> url]
            ELSE result[k]]
    ELSE Append(result, [name |-> name, versions |-> versions, url |-> url])

\* lines 121-135: the metadata of address i arrives
MetaResponds(i, versions) ==
    /\ i \in 1..Len(metaRequests)
    /\ metaRequests[i].state = "inflight"
    /\ metaRequests' = [metaRequests EXCEPT ![i].state = "done"]
    /\ IF apiClassNameMatch(metaRequests[i].url)
       THEN /\ result' = Record(apiClassName(metaRequests[i].url), versions, metaRequests[i].url)
            /\ availableCount' = availableCount + 1
       ELSE UNCHANGED <<result, availableCount>>
    /\ UNCHANGED <<phase, failure, MAX_SIMULTANEOUS_REQUESTS, sources, apiList, apisList,
                   docsRequests, apisTree, emitStep, files>>
    /\ UNCHANGED <<index, notBuild>>

\* lines 136-139: a metadata request that fails is ignored
MetaFails(i) ==
    /\ i \in 1..Len(metaRequests)
    /\ metaRequests[i].state = "inflight"
    /\ metaRequests' = [metaRequests EXCEPT ![i].state = "failed"]
    /\ UNCHANGED <<phase, failure, MAX_SIMULTANEOUS_REQUESTS, sources, apiList, apisList, result,
                   availableCount, docsRequests, apisTree, emitStep, files>>
    /\ UNCHANGED <<index, notBuild>>

\* lines 554-576: a request for every version of every recorded API, in order
RECURSIVE DocsOf(_, _)
DocsOf(apis, k) ==
    IF k > Len(apis)
    THEN <<>>
    ELSE [v \in 1..Len(apis[k].versions) |->
            [api |-> apis[k].name, version |-> apis[k].versions[v], state |-> "queued"]]
         \o DocsOf(apis, k + 1)

\* lines 144-145, 614-618 and 550-576: every metadata request has settled,
\* fetchMeta returns result and availableCount, which main() logs with the
\* length of apisList and does not read again, and buildApiTree requests the
\* documents of result through client
buildApiTree ==
    /\ phase = "meta"
    /\ Settled(metaRequests)
    /\ phase' = "tree"
    /\ docsRequests' = DocsOf(result, 1)
    /\ apisTree' = {}
    /\ metaRequests' = <<>>
    /\ apisList' = <<>>
    /\ result' = <<>>
    /\ availableCount' = 0
    /\ UNCHANGED <<failure, MAX_SIMULTANEOUS_REQUESTS, sources, apiList, emitStep, files>>
    /\ UNCHANGED <<index, notBuild>>

\* the limiter starts the document request at the head of its queue
AdmitDoc(k) ==
    /\ FirstQueued(docsRequests, k)
    /\ HasPermit
    /\ docsRequests' = [docsRequests EXCEPT ![k].state = "inflight"]
    /\ UNCHANGED <<phase, failure, MAX_SIMULTANEOUS_REQUESTS, sources, apiList, apisList,
                   metaRequests, result, availableCount, apisTree, emitStep, files>>
    /\ UNCHANGED <<index, notBuild>>

\* line 579: Promise.all(docsRequests) is rejected by the first request that is,
\* and main() with it (lines 618, 632-634); the requests still out go on
Reject(reason) ==
    IF phase = "tree"
    THEN phase' = "failed" /\ failure' = reason
    ELSE UNCHANGED <<phase, failure>>

\* lines 563-573: the document of request k arrives and its paths are compiled:
\* methods gets what buildEndpoint returns for each path, the methods of the
\* path's verbs joined; an error thrown by the compiler rejects the request
DocResponds(k, doc) ==
    /\ k \in 1..Len(docsRequests)
    /\ docsRequests[k].state = "inflight"
    /\ IF Throws(doc)
       THEN /\ docsRequests' = [docsRequests EXCEPT ![k].state = "failed"]
            /\ Reject("generation")
            /\ UNCHANGED apisTree
       ELSE /\ docsRequests' = [docsRequests EXCEPT ![k].state = "done"]
            /\ apisTree' = {e \in apisTree : ~(e.api = docsRequests[k].api
                                               /\ e.version = docsRequests[k].version)}
                           \cup {[api |-> docsRequests[k].api,
                                  version |-> docsRequests[k].version,
                                  methods |-> Len(doc),
                                  generated |-> Generated(doc, 1)]}
            /\ UNCHANGED <<phase, failure>>
    /\ UNCHANGED <<MAX_SIMULTANEOUS_REQUESTS, sources, apiList, apisList, metaRequests, result,
                   availableCount, emitStep, files>>
    /\ UNCHANGED <<index, notBuild>>

\* line 562: the request has no catch: its failure rejects the request
DocFails(k) ==
    /\ k \in 1..Len(docsRequests)
    /\ docsRequests[k].state = "inflight"
    /\ docsRequests' = [docsRequests EXCEPT ![k].state = "failed"]
    /\ Reject("document fetch")
    /\ UNCHANGED <<MAX_SIMULTANEOUS_REQUESTS, sources, apiList, apisList, metaRequests, result,
                   availableCount, apisTree, emitStep, files>>
    /\ UNCHANGED <<index, notBuild>>

\* a barrier that opens with the first document compiled
TreeReady_First == \E k \in 1..Len(docsRequests) : docsRequests[k].state = "done"

\* line 579: Promise.all(docsRequests) resolves when every request has
TreeReady == \A k \in 1..Len(docsRequests) : docsRequests[k].state = "done"

\* lines 579-580 and 618-621: the tree is returned and createAPI is called
createAPI ==
    /\ phase = "tree"
    /\ TreeReady
    /\ phase' = "emit"
    /\ emitStep' = "clean"
    /\ UNCHANGED <<failure, MAX_SIMULTANEOUS_REQUESTS, sources, apiList, apisList, metaRequests,
                   result, availableCount, docsRequests, apisTree, files>>
    /\ UNCHANGED <<index, notBuild>>

\* lines 589-593: ./dist/apis and ./dist/index.js are removed
Clean ==
    /\ emitStep = "clean"
    /\ files' = {}
    /\ emitStep' = "index"
    /\ UNCHANGED <<phase, failure, MAX_SIMULTANEOUS_REQUESTS, sources, apiList, apisList,
                   metaRequests, result, availableCount, docsRequests, apisTree>>
    /\ UNCHANGED <<index, notBuild>>

\* lines 596 and 197-272: the aggregator is written
createIndex ==
    /\ emitStep = "index"
    /\ files' = files \cup {IndexFile("new")}
    /\ index' = IndexOf(apisTree)
    /\ emitStep' = "classes"
    /\ UNCHANGED <<phase, failure, MAX_SIMULTANEOUS_REQUESTS, sources, apiList, apisList,
                   metaRequests, result, availableCount, docsRequests, apisTree>>
    /\ UNCHANGED notBuild

\* lines 599-603 and 153-191: a class file for every version that has methods
createAPIClasses ==
    /\ emitStep = "classes"
    /\ files' = files \cup {ClassFile(e.api, e.version, "new") : e \in {t \in apisTree : t.methods > 0}}
    /\ emitStep' = "written"
    /\ UNCHANGED <<phase, failure, MAX_SIMULTANEOUS_REQUESTS, sources, apiList, apisList,
                   metaRequests, result, availableCount, docsRequests, apisTree>>
    /\ UNCHANGED <<index, notBuild>>

\* lines 605, 621 and 629-631: the run ends
Built ==
    /\ emitStep = "written"
    /\ phase = "emit"
    /\ phase' = "done"
    /\ UNCHANGED <<failure, MAX_SIMULTANEOUS_REQUESTS, sources, apiList, apisList, metaRequests,
                   result, availableCount, docsRequests, apisTree, emitStep, files>>
    /\ UNCHANGED <<index, notBuild>>

NextBuild ==
    \/ fetchApiList
    \/ \E s \in Sources, page \in Pages : SourceResponds(s, page)
    \/ \E s \in Sources : SourceFails(s)
    \/ fetchMeta
    \/ \E i \in 1..Len(metaRequests) : AdmitMeta(i)
    \/ \E i \in 1..Len(metaRequests), versions \in VersionLists : MetaResponds(i, versions)
    \/ \E i \in 1..Len(metaRequests) : MetaFails(i)
    \/ buildApiTree
    \/ \E k \in 1..Len(docsRequests) : AdmitDoc(k)
    \/ \E k \in 1..Len(docsRequests), doc \in Documents : DocResponds(k, doc)
    \/ \E k \in 1..Len(docsRequests) : DocFails(k)
    \/ createAPI
    \/ Clean
    \/ createIndex
    \/ createAPIClasses
    \/ Built

Frame(url, id) ==
    [url |-> url, id |-> id, phase |-> "sent", resp |-> NoResponse, result |-> NoResult]

Top == stack[Len(stack)]

SetTop(f) == [stack EXCEPT ![Len(stack)] = f]

\* axios sends the request with the instance defaults merged in: it carries the
\* default X-CSRF-TOKEN header of the moment it is sent
Send(url) ==
    /\ Len(sent) < MaxSends
    /\ sent' = Append(sent, [url |-> url, token |-> defaults])

InitClient ==
    /\ onTokenExpired \in BOOLEAN
    /\ expiredCalls = 0
    /\ defaults = NoToken
    /\ stack = <<>>
    /\ sent = <<>>
    /\ outcome = NoResult
    /\ calls = 0
    /\ factory = "idle"
    /\ userID = "unset"

\* a client nobody uses
IdleClient ==
    /\ onTokenExpired = FALSE
    /\ expiredCalls = 0
    /\ defaults = NoToken
    /\ stack = <<>>
    /\ sent = <<>>
    /\ outcome = NoResult
    /\ calls = 0
    /\ factory = "idle"
    /\ userID = "unset"

\* the user calls client.request / client.get / client.post on RBXClient.direct
Request(url) ==
    /\ stack = <<>>
    /\ factory \in {"idle", "returned"}
    /\ calls < MaxCalls
    /\ calls' = calls + 1
    /\ sent' = <<[url |-> url, token |-> defaults]>>
    /\ stack' = <<Frame(url, 1)>>
    /\ outcome' = NoResult
    /\ UNCHANGED <<onTokenExpired, expiredCalls, defaults, factory, userID>>
    /\ UNCHANGED notClient

\* the server answers the innermost request
Respond(resp) ==
    /\ stack # <<>>
    /\ Top.phase = "sent"
    /\ stack' = SetTop([Top EXCEPT !.phase = "responded", !.resp = resp])
    /\ UNCHANGED <<onTokenExpired, expiredCalls, defaults, sent, outcome, calls, factory, userID>>
    /\ UNCHANGED notClient

Decision(f) == IF f.resp.status = 200 THEN onFulfilled ELSE onRejected(f.url, f.id, f.resp)

\* lines 23-62: the interceptor runs on the answer of the innermost request
Intercept ==
    /\ stack # <<>>
    /\ Top.phase = "responded"
    /\ LET d == Decision(Top) IN
       /\ expiredCalls' = IF d.expired /\ onTokenExpired THEN expiredCalls + 1 ELSE expiredCalls
       /\ defaults' = IF d.token # NoToken THEN d.token ELSE defaults
       /\ IF d.act = "refresh"
          THEN /\ Send(XCSRFEndpoint)
               /\ stack' = Append(SetTop([Top EXCEPT !.phase = "refreshing", !.resp = NoResponse]),
                                  Frame(XCSRFEndpoint, Len(sent) + 1))
          ELSE /\ stack' = SetTop([Top EXCEPT !.phase = "settled", !.result = d.result])
               /\ UNCHANGED sent
    /\ UNCHANGED <<onTokenExpired, outcome, calls, factory, userID>>
    /\ UNCHANGED notClient

Parent == stack[Len(stack) - 1]

\* line 42: the refresh call resolved, the original request is made again
Replay ==
    /\ Len(stack) >= 2
    /\ Top.phase = "settled" /\ Top.result.kind = "resolved"
    /\ Parent.phase = "refreshing"
    /\ Send(Parent.url)
    /\ stack' = Append(SubSeq(stack, 1, Len(stack) - 2) \o <<[Parent EXCEPT !.phase = "replaying"]>>,
                       Frame(Parent.url, Len(sent) + 1))
    /\ UNCHANGED <<onTokenExpired, expiredCalls, defaults, outcome, calls, factory, userID>>
    /\ UNCHANGED notClient

\* lines 40-43: the promise the handler returned settles as the refresh call's
\* rejection, or as the replayed request does
Adopt ==
    /\ Len(stack) >= 2
    /\ Top.phase = "settled"
    /\ \/ Parent.phase = "refreshing" /\ Top.result.kind = "rejected"
       \/ Parent.phase = "replaying"
    /\ stack' = SubSeq(stack, 1, Len(stack) - 2)
                  \o <<[Parent EXCEPT !.phase = "settled", !.result = Top.result]>>
    /\ UNCHANGED <<onTokenExpired, expiredCalls, defaults, sent, outcome, calls, factory, userID>>
    /\ UNCHANGED notClient

\* the caller's promise settles
Settle ==
    /\ Len(stack) = 1
    /\ Top.phase = "settled"
    /\ outcome' = Top.result
    /\ stack' = <<>>
    /\ UNCHANGED <<onTokenExpired, expiredCalls, defaults, sent, calls, factory, userID>>
    /\ UNCHANGED notClient

\* lines 251-256: the factory builds the container (and with it a new client) and
\* awaits RBXClient.Users['v1'].Authenticated()
createRBXClient ==
    /\ calls = 0
    /\ factory = "idle"
    /\ factory' = "lookup"
    /\ calls' = calls + 1
    /\ sent' = <<[url |-> AuthenticatedEndpoint, token |-> defaults]>>
    /\ stack' = <<Frame(AuthenticatedEndpoint, 1)>>
    /\ outcome' = NoResult
    /\ UNCHANGED <<onTokenExpired, expiredCalls, defaults, userID>>
    /\ UNCHANGED notClient

\* lines 256-265: the lookup has settled. userInfo.id of a lookup that resolved
\* with no value throws a TypeError inside the try block
createRBXClientResume ==
    /\ factory = "lookup"
    /\ stack = <<>>
    /\ outcome.kind # "pending"
    /\ IF outcome = Resolved("data")
       THEN factory' = "returned" /\ userID' = "set"
       ELSE /\ UNCHANGED userID
            /\ \E hasStatus \in BOOLEAN :
                 LET err == IF outcome.kind = "rejected" THEN outcome.err
                            ELSE [type |-> "TypeError", id |-> 0, status |-> NoStatus,
                                  message |-> <<"Cannot read property 'id'">>]
                 IN  factory' = IF Rethrows(err, hasStatus) THEN "threw" ELSE "returned"
    /\ UNCHANGED <<onTokenExpired, expiredCalls, defaults, stack, sent, outcome, calls>>
    /\ UNCHANGED notClient

Next ==
    \/ createRBXClient
    \/ createRBXClientResume
    \/ \E url \in Endpoints : Request(url)
    \/ \E resp \in Responses : Respond(resp)
    \/ Intercept
    \/ Replay
    \/ Adopt
    \/ Settle

Init == InitClient /\ IdleCompiler /\ IdleBuild /\ IdleCall /\ IdleName

Spec == Init /\ [][Next]_vars

\* the compiler on every operation within the bounds
InitCompile == IdleClient /\ InitCompiler /\ IdleBuild /\ IdleCall /\ IdleName

NextCompile == Compile

SpecCompile == InitCompile /\ [][NextCompile]_vars

\* one run of the build script
InitBuildRun == IdleClient /\ IdleCompiler /\ InitBuild /\ IdleCall /\ IdleName

SpecBuild == InitBuildRun /\ [][NextBuild]_vars

\* the generated methods and their callers
InitCall == IdleClient /\ InitCalls /\ IdleBuild /\ IdleName

NextCall ==
    \/ Compile
    \/ Call

SpecCall == InitCall /\ [][NextCall]_vars

\* the naming of the methods
InitName == IdleClient /\ IdleCompiler /\ IdleBuild /\ IdleCall /\ InitNames

NextName == Name

SpecName == InitName /\ [][NextName]_vars

\* ------------------------------------------------------------------ claims

Count(seq, url) == Cardinality({i \in 1..Len(seq) : seq[i].url = url})

\* the interceptor has just run on the answer of the innermost request
Intercepted == stack # <<>> /\ Top.phase = "responded" /\ stack' # stack

\* what the innermost request of the unprimed state has become
Handled == stack'[Len(stack)]

\* C1: a call to a non-refresh endpoint sends the original request at most twice
\* and POSTs the refresh endpoint at most once, whatever the server answers.
C1_SingleShotReplay ==
    (sent # <<>> /\ sent[1].url # XCSRFEndpoint)
        => /\ Count(sent, sent[1].url) <= 2
           /\ Count(sent, XCSRFEndpoint) <= 1

\* C2 as stated: on a 401 the callback is called once if there is one, nothing
\* is sent, and the promise is rejected with the error exactly as axios made it.
C2_ErrorUntouched ==
    [][(Intercepted /\ Top.resp.status = 401)
        => /\ expiredCalls' = expiredCalls + (IF onTokenExpired THEN 1 ELSE 0)
           /\ sent' = sent
           /\ Len(stack') = Len(stack)
           /\ Handled.result = Rejected(AxiosError(Top.id, Top.resp))]_vars

\* C2 amended: on a 401 the callback is called once if there is one, nothing is
\* sent, and the promise is rejected: with the original error when the response
\* has a payload, its message unchanged unless the payload lists errors, and then
\* with the first listed message appended; with a TypeError when the response
\* has no payload to read.
C2_Unauthorized ==
    [][(Intercepted /\ Top.resp.status = 401)
        => /\ expiredCalls' = expiredCalls + (IF onTokenExpired THEN 1 ELSE 0)
           /\ sent' = sent
           /\ Len(stack') = Len(stack)
           /\ Handled.phase = "settled"
           /\ Handled.result.kind = "rejected"
           /\ LET e == Handled.result.err IN
              IF Top.resp.payload = "null"
              THEN e.type = "TypeError"
              ELSE /\ e.type = "AxiosError" /\ e.id = Top.id /\ e.status = 401
                   /\ e.message = IF Top.resp.payload = "errors"
                                  THEN <<AxiosMessage, ApiMessage>>
                                  ELSE <<AxiosMessage>>]_vars

\* a 401 whose payload lists an error has been handled and the callback called
C2_Witness ==
    /\ onTokenExpired /\ expiredCalls = 1
    /\ stack # <<>> /\ Top.phase = "settled"
    /\ Top.resp.status = 401 /\ Top.resp.payload = "errors"
    /\ Top.result.err.message = <<AxiosMessage, ApiMessage>>

LookupUnauthorized ==
    outcome.kind = "rejected" /\ outcome.err.type = "AxiosError" /\ outcome.err.status = 401

\* C4: createRBXClient returns the container when the lookup fails with status
\* 401, throws only when it fails otherwise, and returns it with userID set when
\* the lookup succeeds.
C4_FactoryTolerates401 ==
    (calls = 1 /\ stack = <<>> /\ factory \in {"returned", "threw"})
        => /\ LookupUnauthorized => factory = "returned"
           /\ outcome = Resolved("data") => (factory = "returned" /\ userID = "set")
           /\ (outcome.kind = "rejected" /\ ~LookupUnauthorized) => factory = "threw"

Compiled == method # NotCompiled

\* the locations buildMethodBody has a branch for
Supported == {"path", "query", "header", "body", "formData"}

LocationOf(i) == method.params[i].out.location

\* the ungrouped parameter i is a body parameter met when the payload is set
DuplicateBodyAt(i) ==
    /\ LocationOf(i) = "body"
    /\ \E j \in 1..(i - 1) : LocationOf(j) \in {"body", "formData"}

\* C9 as stated: the unsupported-location error is raised exactly when some
\* resolved parameter, or the group, has a location outside the five, grouped
\* or not.
C9_UnsupportedIffOutsideFive ==
    Compiled =>
        (method.body.error = "unsupported"
            <=> \E i \in 1..Len(method.params) : LocationOf(i) \notin Supported)

\* C9 amended: the unsupported-location error is raised exactly when the group
\* has a location outside {path, query, header, body} (formData is not accepted
\* for a group), or when an ungrouped parameter has a location outside the five
\* and no duplicate-body error was raised for a parameter before it; an
\* ungrouped location outside the five always aborts generation.
C9_UnsupportedLocation ==
    Compiled =>
        /\ method.body.error = "unsupported"
             <=> IF method.isMapped
                 THEN LocationOf(1) \notin {"path", "query", "header", "body"}
                 ELSE \E i \in 1..Len(method.params) :
                        /\ LocationOf(i) \notin Supported
                        /\ \A k \in 1..(i - 1) : ~DuplicateBodyAt(k)
        /\ (\E i \in 1..Len(method.params) : LocationOf(i) \notin Supported)
             => method.body.error # "none"

\* after two accepted parameters a third with an unknown location ended the
\* compilation with the unsupported-location error
C9_Witness ==
    /\ Compiled /\ ~method.isMapped /\ Len(method.params) = 3
    /\ LocationOf(1) = "formData" /\ LocationOf(2) = "path" /\ LocationOf(3) = "cookie"
    /\ method.body.error = "unsupported"

\* C10: an operation with two or more ungrouped body-bearing parameters (body
\* or formData, in any order) does not compile.
C10_SecondBodyRejected ==
    (Compiled /\ ~method.isMapped
       /\ Cardinality({i \in 1..Len(method.params) : LocationOf(i) \in {"body", "formData"}}) >= 2)
        => method.body.error # "none"

\* the metadata requests whose answer wrote a key of result
Writers == {i \in 1..Len(metaRequests) :
              metaRequests[i].state = "done" /\ apiClassNameMatch(metaRequests[i].url)}

\* C5: a schema-document fetch that fails is never propagated to the run: the
\* version is left out and the build goes on.
C5_FetchFailureOmitted == failure # "document fetch"

\* every (API, version) requested is in the tree
TreeAssembled ==
    \A k \in 1..Len(docsRequests) :
        /\ docsRequests[k].state = "done"
        /\ \E e \in apisTree : e.api = docsRequests[k].api /\ e.version = docsRequests[k].version

\* C6: the emit phase starts only after every (API, version) task has finished
\* and the tree is assembled; a run whose tree building failed never starts it,
\* and no file is deleted or written outside the emit phase of a run that has
\* not failed.
C6_EmitAfterTree ==
    /\ [](emitStep # "idle" => (TreeAssembled /\ failure = "none"))
    /\ [](failure # "none" => (emitStep = "idle" /\ phase = "failed"))
    /\ [][files' # files => (emitStep \in {"clean", "index", "classes"} /\ failure = "none")]_vars

\* the files of a run with two documents, one of them without methods, are written
C6_Witness ==
    /\ emitStep = "written"
    /\ Len(docsRequests) = 2
    /\ \E e \in apisTree : e.methods = 0
    /\ IndexFile("new") \in files
    /\ \E e \in apisTree : ClassFile(e.api, e.version, "new") \in files
    /\ \A f \in files : f.run = "new"

\* C7: no two metadata requests write the same key of result, and the count of
\* available endpoints is the number of keys.
C7_DisjointKeys ==
    /\ \A i, j \in Writers :
         i # j => apiClassName(metaRequests[i].url) # apiClassName(metaRequests[j].url)
    /\ availableCount = Len(result)

\* C8: every request in flight holds a permit of the one limiter, so no more
\* than the cap are in flight at once, whatever the stage.
C8_AllThroughLimiter ==
    /\ Unlimited = 0
    /\ Running + Unlimited <= MAX_SIMULTANEOUS_REQUESTS

\* the signature of the method that was called
Signature == buildMethodParams(method.params)

Called == argument.t # "none"

\* the guard of field i is the one that threw
GuardRaised(i) == raised.by = "required" /\ raised.param = Signature[i].name

\* C11 as the specification states it: the guard of a required parameter
\* throws exactly when the caller's object has no key of that name, and every
\* value supplied under the key, null included, passes it
C11_GuardIffOmitted ==
    Called =>
        /\ raised.by = "required" <=>
               \E i \in 1..Len(Signature) :
                   Signature[i].default = "required" /\ argument.props[Signature[i].name] = "absent"
        /\ raised.by = "required" => argument.props[raised.param] = "absent"

\* C11: in a call whose argument is an object or is left out, the guard of a
\* required parameter throws exactly when the value under its name is undefined
\* (the key absent, or present with undefined) and no required parameter before
\* it in the signature is undefined too; null and every other value pass the
\* guard, and a parameter that is not required never throws
C11_GuardOnUndefined ==
    (Called /\ argument.t # "null") =>
        /\ \A i \in 1..Len(Signature) :
              GuardRaised(i) <=>
                  /\ Signature[i].default = "required"
                  /\ argument.props[Signature[i].name] \in {"absent", "undefined"}
                  /\ \A j \in 1..(i - 1) :
                        Signature[j].default = "required" =>
                            argument.props[Signature[j].name] \in {"null", "value"}
        /\ raised.by \in {"none", "required"}
        /\ raised.by = "none" <=> raised = NotRaised

\* a call that passes null for one required parameter and undefined for another:
\* the guard of the second has thrown
C11_Witness ==
    /\ Called
    /\ argument.t = "object"
    /\ raised.by = "required"
    /\ argument.props[raised.param] = "undefined"
    /\ \E i \in 1..Len(Signature) :
          /\ Signature[i].default = "required"
          /\ argument.props[Signature[i].name] = "null"
    /\ \E i \in 1..Len(method.params) : ~method.params[i].required

\* the logical parameters compiled from the declared parameter i
CompiledFrom(i) ==
    {k \in 1..Len(method.params) : method.params[k].out.param = Parameters(methodInfo)[i].name}

\* C12: every declared parameter is in the compiled list. One declared
\* parameter whose schema is an object is grouped: a logical parameter for each
\* of its properties, all with the one location. In every other case, a single
\* parameter with a schema of another type included, each declared parameter
\* gives exactly one logical parameter, in the path if its name is a
\* placeholder and where the document declares it if not
C12_EveryParameterCompiled ==
    Compiled =>
        IF Len(methodInfo) = 1 /\ methodInfo[1].schema = "object"
        THEN /\ method.isMapped
             /\ Len(method.params) = Len(Properties)
             /\ \A k \in 1..Len(Properties) :
                   /\ method.params[k].name = Properties[k]
                   /\ method.params[k].out = Out(Parameters(methodInfo)[1], pathParams)
        ELSE /\ ~method.isMapped
             /\ Len(method.params) = Len(methodInfo)
             /\ \A i \in 1..Len(methodInfo) :
                   /\ Cardinality(CompiledFrom(i)) = 1
                   /\ \A k \in CompiledFrom(i) :
                         method.params[k].out = Out(Parameters(methodInfo)[i], pathParams)

Named == methodName # NotNamed

\* the letter v, then digits and dots only, at least one
IsVersion_DigitsAndDots(part) ==
    /\ Len(part) >= 2
    /\ part[1] = "v"
    /\ \A i \in 2..Len(part) : part[i] \in Digits \cup {"."}

\* the parts the name is made of when a version token is the letter v with
\* digits and dots only
RECURSIVE PartsKept(_, _)
PartsKept(parts, i) ==
    IF i > Len(parts)
    THEN <<>>
    ELSE (IF parts[i] # <<>> /\ ~IsVersion_DigitsAndDots(parts[i]) /\ ~IsPlaceholder(parts[i])
          THEN <<parts[i]>>
          ELSE <<>>) \o PartsKept(parts, i + 1)

RECURSIVE Capitalized(_, _)
Capitalized(parts, i) ==
    IF i > Len(parts) THEN <<>> ELSE toNormalCase(parts[i]) \o Capitalized(parts, i + 1)

\* C14: of the segments of a path, those that are the letter v followed only
\* by digits and dots and those that are wholly a placeholder are dropped, and
\* every other non-empty segment, a word that starts with v included, gives
\* its capitalized form to the name, in order (stated where no segment holds
\* the class name, which the code passes over at the head of the name)
C14_VersionTokensOnly ==
    LET parts == Split(path, 1, <<>>)
    IN  (Named /\ \A i \in 1..Len(parts) : ~TestIgnoreCase(className, parts[i]))
            => methodName = Capitalized(PartsKept(parts, 1), 1)

Emitted == emitStep = "written"

\* the class file of a version of the tree is among the files of this run
Written(e) == ClassFile(e.api, e.version, "new") \in files

\* the aggregator instantiates the class of a version of the tree
Registered(e) == Instance(e.api, e.version) \in index.instances

\* C13: after the emit phase a version of the tree has a class file, and is
\* instantiated in the aggregator, exactly when at least one method was
\* generated for it: the versions written are the versions instantiated and no
\* class without a method is emitted
C13_WrittenIffMethods ==
    Emitted =>
        \A e \in apisTree :
            /\ Written(e) <=> e.generated >= 1
            /\ Registered(e) <=> e.generated >= 1
            /\ Written(e) <=> Registered(e)

\* C15: after the emit phase, for every version with a method the module the
\* aggregator requires is the file the emitter wrote for it, whatever dots the
\* version string has, and two versions are never written to one file
C15_RequiredIsWritten ==
    Emitted =>
        /\ \A e \in apisTree :
              e.generated >= 1 =>
                  /\ Required(e.api, e.version) \in index.requires
                  /\ Resolve(Required(e.api, e.version), "new") = ClassFile(e.api, e.version, "new")
                  /\ Resolve(Required(e.api, e.version), "new") \in files
        /\ \A e1, e2 \in apisTree :
              (e1.generated >= 1 /\ e2.generated >= 1
               /\ <<e1.api, e1.version>> # <<e2.api, e2.version>>)
                  => ClassFile(e1.api, e1.version, "new") # ClassFile(e2.api, e2.version, "new")

====
